---- MODULE Spec2Model ----
(***************************************************************************)
(* FastWrite-API: the POST /generate handler of src/main.py                *)
(* (generate_documentation), with fetch_github_zip and process_zip, as a   *)
(* state machine.  Texts (URLs, messages, file contents) are sequences of  *)
(* string fragments; the external collaborators (requests.get, the         *)
(* FastWrite package) answer nondeterministically.                         *)
(***************************************************************************)
EXTENDS Integers, Sequences, FiniteSets, TLC

VARIABLES pc, req, llm_provider, zip_data, code_content, flowchart,
          branchIdx, workspace, events, exc, raisedAt, outcomes, response

vars == <<pc, req, llm_provider, zip_data, code_content, flowchart,
          branchIdx, workspace, events, exc, raisedAt, outcomes, response>>

-----------------------------------------------------------------------------
(* Bounds *)

MaxUrlLen == 3
MaxB64Len == 4
MaxFiles  == 2

-----------------------------------------------------------------------------
(* Values *)

Absent  == "<absent>"
None    == "<None>"
NoneSeq == <<"<None>">>

Range(s) == {s[i] : i \in 1..Len(s)}

RECURSIVE SeqsUpTo(_, _)
SeqsUpTo(S, n) ==
    IF n = 0 THEN {<<>>}
    ELSE LET shorter == SeqsUpTo(S, n - 1)
         IN  shorter \cup {Append(s, x) : s \in {t \in shorter : Len(t) = n - 1}, x \in S}

\* not v, for a str field
Falsy(v) == v = None \/ v = ""
\* not v, for a text held as a sequence
FalsySeq(v) == v = NoneSeq \/ v = <<>>

GitHubPrefix == <<"https://github.com/">>
ZipSuffix    == <<".zip">>
UrlTokens    == {"https://github.com/", "user/repo", ".zip"}
Urls         == SeqsUpTo(UrlTokens, MaxUrlLen)

B64Chars   == {"A", "=", "!"}
B64Strings == SeqsUpTo(B64Chars, MaxB64Len)

ProviderNames == {"groq", "Gemini", "OPENAI", "openrouter", "foo"}
FileNames     == {"a.py", "b.py"}
FileLists     == SeqsUpTo(FileNames, MaxFiles)

\* str.lower() on the provider names the model sends
Lower(s) ==
    CASE s = "Gemini" -> "gemini"
      [] s = "OPENAI" -> "openai"
      [] OTHER        -> s

startswith(s, p) == Len(s) >= Len(p) /\ SubSeq(s, 1, Len(p)) = p
endswith(s, p)   == Len(s) >= Len(p) /\ SubSeq(s, Len(s) - Len(p) + 1, Len(s)) = p

\* str.replace(old, new) where old and new are single fragments
RECURSIVE replace(_, _, _)
replace(s, old, new) ==
    IF s = <<>> THEN <<>>
    ELSE <<IF Head(s) = old THEN new ELSE Head(s)>> \o replace(Tail(s), old, new)

\* ", ".join(xs)
RECURSIVE join(_)
join(xs) ==
    IF xs = <<>> THEN <<>>
    ELSE IF Len(xs) = 1 THEN xs
    ELSE <<Head(xs), ", ">> \o join(Tail(xs))

-----------------------------------------------------------------------------
(* The request body *)

RequestBody ==
    [github_url   : {NoneSeq} \cup Urls,
     zip_file     : {NoneSeq} \cup B64Strings,
     llm_provider : {Absent, ""} \cup ProviderNames,
     llm_model    : {Absent, "", "model-1"},
     api_key      : {None, "", "key"},
     prompt       : {Absent, "", "explain"}]

\* the requests the model sends: the field a request does not read (zip_file
\* when github_url is given) takes two values only
Requests ==
    {r \in RequestBody :
        FalsySeq(r.github_url) \/ r.zip_file \in {NoneSeq, <<"A", "A", "A", "A">>}}

\* pydantic: llm_provider, llm_model and prompt have no default
RequiredPresent(r) ==
    r.llm_provider # Absent /\ r.llm_model # Absent /\ r.prompt # Absent

-----------------------------------------------------------------------------
(* Exceptions *)

NoExc == [cls |-> "none", status_code |-> 0, msg |-> <<>>]

Exc(c, m) == [cls |-> c, status_code |-> 0, msg |-> m]

HTTPException(code, d) == [cls |-> "HTTPException", status_code |-> code, msg |-> d]

\* the classes an opaque collaborator may raise
RaisedClasses == {"ValueError", "RuntimeError", "Exception"}

\* the base class of a class (Python's hierarchy)
Base(c) ==
    CASE c = "binascii.Error"   -> "ValueError"
      [] c = "RequestException" -> "OSError"
      [] OTHER                  -> "Exception"

\* isinstance(e, k), which is what an except clause tests
IsInstance(e, k) ==
    \/ e.cls = k
    \/ Base(e.cls) = k
    \/ k = "Exception"

StatusText(code) ==
    CASE code = 400 -> "400"
      [] code = 500 -> "500"
      [] OTHER      -> "0"

\* str(e)
str(e) ==
    IF e.cls = "HTTPException"
    THEN <<StatusText(e.status_code), ": ">> \o e.msg
    ELSE e.msg

-----------------------------------------------------------------------------
(* base64.b64decode(s), validate=False *)

\* the scan of binascii.a2b_base64: q is the position in the quad, pads the
\* padding seen, n the bytes produced; the result is n, or -1 on an error
RECURSIVE a2b_base64(_, _, _, _)
a2b_base64(s, q, pads, n) ==
    IF s = <<>> THEN (IF q # 0 THEN -1 ELSE n)
    ELSE LET c == Head(s) IN
         IF c = "="
         THEN IF q >= 2 /\ q + pads + 1 >= 4
              THEN n
              ELSE a2b_base64(Tail(s), q, IF q >= 2 THEN pads + 1 ELSE pads, n)
         ELSE IF c = "A"
         THEN a2b_base64(Tail(s), (q + 1) % 4, 0, IF q = 0 THEN n ELSE n + 1)
         ELSE a2b_base64(Tail(s), q, pads, n)

b64decode(s) == a2b_base64(s, 0, 0, 0)

-----------------------------------------------------------------------------
(* Responses and the handler's except clauses *)

NoResponse ==
    [status |-> 0, detail |-> <<>>, documentation |-> <<>>, flowchart |-> <<>>,
     llm_provider |-> "", llm_model |-> ""]

ErrorResponse(code, d) ==
    [status |-> code, detail |-> d, documentation |-> <<>>, flowchart |-> <<>>,
     llm_provider |-> "", llm_model |-> ""]

\* FastAPI's answer to a body that fails the RequestBody model
UnprocessableEntity == ErrorResponse(422, <<"field required">>)

\* except ValueError / except RuntimeError / except Exception
Handle(e) ==
    IF IsInstance(e, "ValueError") THEN ErrorResponse(400, str(e))
    ELSE IF IsInstance(e, "RuntimeError") THEN ErrorResponse(500, str(e))
    ELSE ErrorResponse(500, <<"Internal server error: ">> \o str(e))

ExitWith_Leak(ws) == ws

\* leaving the with block: TemporaryDirectory.__exit__ removes the directory
ExitWith(ws) == IF ws = "exists" THEN "removed" ELSE ws

Ev(op, arg) == [op |-> op, arg |-> arg]

\* exception e, raised at stage st, leaves the try block
RaiseOut(e, st, evs) ==
    /\ exc' = e
    /\ raisedAt' = st
    /\ events' = evs
    /\ workspace' = ExitWith(workspace)
    /\ response' = Handle(e)
    /\ pc' = "done"

-----------------------------------------------------------------------------
(* Validation *)

RequiredFields == <<"llm_provider", "llm_model", "prompt">>

\* required_fields, with the lower-cased provider
RequiredValue(r, k) ==
    CASE k = "llm_provider" -> Lower(r.llm_provider)
      [] k = "llm_model"    -> r.llm_model
      [] k = "prompt"       -> r.prompt

\* [k for k, v in required_fields.items() if not v]
Missing(r) == SelectSeq(RequiredFields, LAMBDA k : Falsy(RequiredValue(r, k)))

NoSource(r) == FalsySeq(r.github_url) /\ FalsySeq(r.zip_file)

KeyedProviders == {"groq", "gemini", "openai", "openrouter"}

KeyMissing(r) == Lower(r.llm_provider) \in KeyedProviders /\ Falsy(r.api_key)

\* the first failing check of lines 89-98, or NoExc
ValidationError(r) ==
    IF Missing(r) # <<>>
    THEN HTTPException(400, <<"Missing required fields: ">> \o join(Missing(r)))
    ELSE IF NoSource(r)
    THEN HTTPException(400, <<"Must provide either github_url or zip_file">>)
    ELSE IF KeyMissing(r)
    THEN HTTPException(400, <<"API key is required for ", Lower(r.llm_provider)>>)
    ELSE NoExc

-----------------------------------------------------------------------------
(* fetch_github_zip *)

InvalidGitHubUrl_NoCheck(url) == FALSE

InvalidGitHubUrl(url) == ~startswith(url, GitHubPrefix)

Branches_Swapped == <<"master", "main">>

Branches == <<"main", "master">>

LastBranch(branch) == branch = "master"

base_url(url) == replace(url, "https://github.com/", "https://codeload.github.com/")

zip_url(url, branch) == base_url(url) \o <<"/zip/refs/heads/", branch>>

\* response.content of a successful GET
Content(url) == <<"content of">> \o url

RequestException == Exc("RequestException", <<"404 Client Error">>)

-----------------------------------------------------------------------------
(* process_zip and the provider dispatch *)

NoPythonFiles_Never(py_files) == FALSE

NoPythonFiles(py_files) == py_files = <<>>

read_file(path) == <<"text of", path>>

Bytes(n) == [i \in 1..n |-> "\\x00"]

\* the if/elif chain of lines 116-125
Dispatch(p) ==
    CASE p = "groq"       -> "generate_documentation_groq"
      [] p = "gemini"     -> "generate_documentation_gemini"
      [] p = "openai"     -> "generate_documentation_openai"
      [] p = "openrouter" -> "generate_documentation_openrouter"
      [] OTHER            -> "unsupported"

FlowCatches_ValueErrorOnly(e) == IsInstance(e, "ValueError")

\* except Exception around generate_data_flow
FlowCatches(e) == IsInstance(e, "Exception")

-----------------------------------------------------------------------------
(* The state machine *)

Init ==
    /\ pc = "idle"
    /\ req = [github_url |-> NoneSeq, zip_file |-> NoneSeq, llm_provider |-> Absent,
              llm_model |-> Absent, api_key |-> None, prompt |-> Absent]
    /\ llm_provider = ""
    /\ zip_data = NoneSeq
    /\ code_content = <<>>
    /\ flowchart = <<>>
    /\ branchIdx = 1
    /\ workspace = "none"
    /\ events = <<>>
    /\ exc = NoExc
    /\ raisedAt = "none"
    /\ outcomes = [flow |-> "none", doc |-> "none"]
    /\ response = NoResponse

\* a POST /generate arrives; FastAPI parses the body into RequestBody
Receive ==
    /\ pc = "idle"
    /\ \E r \in Requests :
          /\ req' = r
          /\ IF RequiredPresent(r)
             THEN /\ pc' = "validate"
                  /\ UNCHANGED response
             ELSE /\ pc' = "done"
                  /\ response' = UnprocessableEntity
    /\ UNCHANGED <<llm_provider, zip_data, code_content, flowchart, branchIdx,
                   workspace, events, exc, raisedAt, outcomes>>

\* lines 85-98
Validate ==
    /\ pc = "validate"
    /\ llm_provider' = Lower(req.llm_provider)
    /\ IF ValidationError(req) # NoExc
       THEN RaiseOut(ValidationError(req), "validate", events)
       ELSE /\ pc' = "with"
            /\ UNCHANGED <<events, exc, raisedAt, workspace, response>>
    /\ UNCHANGED <<req, zip_data, code_content, flowchart, branchIdx, outcomes>>

\* line 100: tempfile.TemporaryDirectory
EnterWith ==
    /\ pc = "with"
    /\ workspace' = "exists"
    /\ events' = Append(events, Ev("mkdtemp", <<>>))
    /\ pc' = "acquire"
    /\ UNCHANGED <<req, llm_provider, zip_data, code_content, flowchart, branchIdx,
                   exc, raisedAt, outcomes, response>>

\* lines 101-107, with the checks of fetch_github_zip that precede its requests
Acquire ==
    /\ pc = "acquire"
    /\ IF ~FalsySeq(req.github_url)
       THEN IF InvalidGitHubUrl(req.github_url)
            THEN /\ RaiseOut(Exc("ValueError", <<"Invalid GitHub URL">>), "fetch", events)
                 /\ UNCHANGED <<zip_data, branchIdx>>
            ELSE /\ pc' = IF endswith(req.github_url, ZipSuffix)
                          THEN "fetch_zip" ELSE "fetch_branch"
                 /\ branchIdx' = 1
                 /\ UNCHANGED <<zip_data, events, exc, raisedAt, workspace, response>>
       ELSE IF ~FalsySeq(req.zip_file)
            THEN IF b64decode(req.zip_file) >= 0
                 THEN /\ zip_data' = Bytes(b64decode(req.zip_file))
                      /\ pc' = "process"
                      /\ UNCHANGED <<branchIdx, events, exc, raisedAt, workspace, response>>
                 ELSE /\ RaiseOut(HTTPException(400, <<"Invalid base64-encoded ZIP file">>),
                                  "decode", events)
                      /\ UNCHANGED <<zip_data, branchIdx>>
            ELSE /\ pc' = "process"
                 /\ UNCHANGED <<zip_data, branchIdx, events, exc, raisedAt, workspace,
                                response>>
    /\ UNCHANGED <<req, llm_provider, code_content, flowchart, outcomes>>

\* lines 52-58: the URL names a .zip resource
FetchDirect ==
    /\ pc = "fetch_zip"
    /\ \E ok \in BOOLEAN :
          LET evs == Append(events, Ev(IF ok THEN "get_ok" ELSE "get_failed", req.github_url))
          IN
          IF ok
          THEN /\ zip_data' = Content(req.github_url)
               /\ events' = evs
               /\ pc' = "process"
               /\ UNCHANGED <<exc, raisedAt, workspace, response>>
          ELSE /\ RaiseOut(Exc("RuntimeError",
                               <<"Failed to fetch GitHub ZIP: ">> \o str(RequestException)),
                           "fetch", evs)
               /\ UNCHANGED zip_data
    /\ UNCHANGED <<req, llm_provider, code_content, flowchart, branchIdx, outcomes>>

\* lines 59-69: one iteration of the loop over the branches
FetchBranch ==
    /\ pc = "fetch_branch"
    /\ LET branch == Branches[branchIdx]
           url    == zip_url(req.github_url, branch)
       IN  \E ok \in BOOLEAN :
              LET evs == Append(events, Ev(IF ok THEN "get_ok" ELSE "get_failed", url)) IN
              IF ok
              THEN /\ zip_data' = Content(url)
                   /\ events' = evs
                   /\ pc' = "process"
                   /\ UNCHANGED <<branchIdx, exc, raisedAt, workspace, response>>
              ELSE IF LastBranch(branch)
              THEN /\ RaiseOut(Exc("RuntimeError",
                                   <<"Failed to fetch GitHub ZIP for branches '", "main",
                                     "' or '", "master", "': ">> \o str(RequestException)),
                               "fetch", evs)
                   /\ UNCHANGED <<zip_data, branchIdx>>
              ELSE IF branchIdx < Len(Branches)
              THEN /\ branchIdx' = branchIdx + 1
                   /\ events' = evs
                   /\ UNCHANGED <<pc, zip_data, exc, raisedAt, workspace, response>>
              ELSE \* the loop ends and the function returns None
                   /\ zip_data' = NoneSeq
                   /\ events' = evs
                   /\ pc' = "process"
                   /\ UNCHANGED <<branchIdx, exc, raisedAt, workspace, response>>
    /\ UNCHANGED <<req, llm_provider, code_content, flowchart, outcomes>>

\* line 109: process_zip(zip_data, tmp_dir)
ProcessZip ==
    /\ pc = "process"
    /\ IF zip_data = NoneSeq
       THEN \* f.write(None)
            /\ RaiseOut(Exc("TypeError", <<"a bytes-like object is required">>),
                        "process_zip", events)
            /\ UNCHANGED code_content
       ELSE LET written   == Append(events, Ev("write", <<>>))
                extracted == Append(written, Ev("extract", <<>>))
                listed(py_files) == Append(extracted, Ev("list", py_files))
            IN  \/ \E c \in RaisedClasses :
                      /\ RaiseOut(Exc(c, <<"extract_zip failed">>), "process_zip", extracted)
                      /\ UNCHANGED code_content
                \/ \E py_files \in FileLists :
                      IF NoPythonFiles(py_files)
                      THEN /\ RaiseOut(Exc("ValueError", <<"No Python files found in the ZIP">>),
                                       "process_zip", listed(py_files))
                           /\ UNCHANGED code_content
                      ELSE IF py_files = <<>>
                      THEN \* py_files[0]
                           /\ RaiseOut(Exc("IndexError", <<"list index out of range">>),
                                       "process_zip", listed(py_files))
                           /\ UNCHANGED code_content
                      ELSE LET evs == Append(listed(py_files), Ev("read", <<py_files[1]>>)) IN
                           \/ /\ code_content' = read_file(py_files[1])
                              /\ events' = evs
                              /\ pc' = "flow"
                              /\ UNCHANGED <<exc, raisedAt, workspace, response>>
                           \/ \E c \in RaisedClasses :
                                 /\ RaiseOut(Exc(c, <<"read_file failed">>), "process_zip", evs)
                                 /\ UNCHANGED code_content
    /\ UNCHANGED <<req, llm_provider, zip_data, flowchart, branchIdx, outcomes>>

\* lines 111-114
Flow ==
    /\ pc = "flow"
    /\ LET evs == Append(events, Ev("flow", <<>>)) IN
       \/ /\ flowchart' = <<"data flow of">> \o code_content
          /\ outcomes' = [outcomes EXCEPT !.flow = "ok"]
          /\ events' = evs
          /\ pc' = "doc"
          /\ UNCHANGED <<exc, raisedAt, workspace, response>>
       \/ \E c \in RaisedClasses :
             LET e == Exc(c, <<"generate_data_flow failed">>) IN
             /\ outcomes' = [outcomes EXCEPT !.flow = c]
             /\ IF FlowCatches(e)
                THEN /\ flowchart' = <<"Failed to generate data flow diagram: ">> \o str(e)
                     /\ events' = evs
                     /\ pc' = "doc"
                     /\ UNCHANGED <<exc, raisedAt, workspace, response>>
                ELSE /\ RaiseOut(e, "flow", evs)
                     /\ UNCHANGED flowchart
    /\ UNCHANGED <<req, llm_provider, zip_data, code_content, branchIdx>>

\* lines 116-132
Doc ==
    /\ pc = "doc"
    /\ IF Dispatch(llm_provider) = "unsupported"
       THEN /\ RaiseOut(HTTPException(400, <<"Unsupported LLM provider: ", llm_provider>>),
                        "dispatch", events)
            /\ UNCHANGED outcomes
       ELSE LET evs == Append(events, Ev("doc", <<Dispatch(llm_provider)>>)) IN
            \/ /\ outcomes' = [outcomes EXCEPT !.doc = "ok"]
               /\ events' = evs
               /\ workspace' = ExitWith(workspace)
               /\ response' = [status |-> 200, detail |-> <<>>,
                               documentation |-> <<"documentation of">> \o code_content,
                               flowchart |-> flowchart,
                               llm_provider |-> llm_provider,
                               llm_model |-> req.llm_model]
               /\ pc' = "done"
               /\ UNCHANGED <<exc, raisedAt>>
            \/ \E c \in RaisedClasses :
                  /\ outcomes' = [outcomes EXCEPT !.doc = c]
                  /\ RaiseOut(Exc(c, <<"provider call failed">>), "doc", evs)
    /\ UNCHANGED <<req, llm_provider, zip_data, code_content, flowchart, branchIdx>>

Next ==
    \/ Receive
    \/ Validate
    \/ EnterWith
    \/ Acquire
    \/ FetchDirect
    \/ FetchBranch
    \/ ProcessZip
    \/ Flow
    \/ Doc

Spec == Init /\ [][Next]_vars

TypeOK ==
    /\ pc \in {"idle", "validate", "with", "acquire", "fetch_zip", "fetch_branch",
               "process", "flow", "doc", "done"}
    /\ workspace \in {"none", "exists", "removed"}
    /\ response.status \in {0, 200, 400, 422, 500}

-----------------------------------------------------------------------------
(* Vocabulary of the properties *)

Done == pc = "done"

Recognized == {"groq", "gemini", "openai", "openrouter"}

\* a mandatory field is missing or empty
FieldMissing(r, k) ==
    CASE k = "llm_provider" -> r.llm_provider \in {Absent, ""}
      [] k = "llm_model"    -> r.llm_model \in {Absent, ""}
      [] k = "prompt"       -> r.prompt \in {Absent, ""}

MandatoryPresent(r) == \A k \in Range(RequiredFields) : ~FieldMissing(r, k)

HasUrl(r) == r.github_url # NoneSeq /\ r.github_url # <<>>
HasZip(r) == r.zip_file # NoneSeq /\ r.zip_file # <<>>
HasKey(r) == r.api_key # None /\ r.api_key # ""

\* the request passes every check of the Validate step
PassesValidate(r) ==
    /\ MandatoryPresent(r)
    /\ HasUrl(r) \/ HasZip(r)
    /\ Lower(r.llm_provider) \in Recognized => HasKey(r)

Happened(ops) == \E i \in 1..Len(events) : events[i].op \in ops

NetworkCalls  == SelectSeq(events, LAMBDA e : e.op \in {"get_ok", "get_failed"})
ProviderCalls == SelectSeq(events, LAMBDA e : e.op = "doc")

\* text m occurs in text d
Carries(d, m) == \E i \in 1..(Len(d) - Len(m) + 1) : SubSeq(d, i, i + Len(m) - 1) = m

\* canonical base64: whole quads of alphabet characters, at most two pads, at the end
WellFormedB64(z) ==
    /\ Len(z) % 4 = 0
    /\ \A i \in 1..Len(z) : z[i] \in {"A", "="}
    /\ \A i \in 1..Len(z) : z[i] = "=" => (i > Len(z) - 2 /\ \A j \in i..Len(z) : z[j] = "=")

-----------------------------------------------------------------------------
(* Properties *)

\* C1: a request with a mandatory field (llm_provider, llm_model, prompt)
\* missing or empty is answered 400 and the detail names a field if and only
\* if that field is missing or empty.  Stated for the bodies that reach the
\* handler (every mandatory key present, at least one of them empty).
C1_MissingFieldsAnswered400 ==
    (Done /\ RequiredPresent(req) /\ ~MandatoryPresent(req)) =>
        /\ response.status = 400
        /\ \A k \in Range(RequiredFields) :
              k \in Range(response.detail) <=> FieldMissing(req, k)

\* C2: with the mandatory fields present, a request with no source, or with
\* a recognized provider and no API key, is answered 400.
C2_SourceAndKeyChecksAnswered400 ==
    (/\ Done
     /\ MandatoryPresent(req)
     /\ \/ ~(HasUrl(req) \/ HasZip(req))
        \/ (Lower(req.llm_provider) \in Recognized /\ ~HasKey(req)))
    => response.status = 400

\* C3: a request naming a provider outside groq, gemini, openai, openrouter
\* is answered 400 and makes no documentation provider call.  Stated for
\* the requests that no earlier step ends: they pass Validate, their archive
\* is fetched or decoded and read, and the Summarize-flow step has run.
C3_UnsupportedProviderAnswered400 ==
    (Done /\ PassesValidate(req) /\ Lower(req.llm_provider) \notin Recognized
          /\ Happened({"flow"}))
    => (response.status = 400 /\ ProviderCalls = <<>>)

\* C4: a validated request with no github_url whose zip_file is not
\* well-formed base64 is answered 400 before extraction, flow summarization
\* or any provider call.
C4_MalformedBase64Answered400 ==
    (Done /\ PassesValidate(req) /\ ~HasUrl(req) /\ ~WellFormedB64(req.zip_file))
    => (response.status = 400 /\ ~Happened({"write", "extract", "list", "read", "flow", "doc"}))

\* C5: a validated request whose github_url does not start with
\* https://github.com/ fails in fetch_github_zip with a ValueError before any
\* network call and is answered 400.
C5_ForeignUrlRejectedBeforeNetwork ==
    (Done /\ PassesValidate(req) /\ HasUrl(req) /\ ~startswith(req.github_url, GitHubPrefix))
    => /\ response.status = 400
       /\ exc.cls = "ValueError"
       /\ raisedAt = "fetch"
       /\ NetworkCalls = <<>>

C5_Witness ==
    /\ Done /\ PassesValidate(req) /\ HasUrl(req)
    /\ ~startswith(req.github_url, GitHubPrefix)
    /\ endswith(req.github_url, ZipSuffix)
    /\ response.status = 400

\* C6: when the archive was obtained and extracted and the listing found no
\* source file, the request is answered 400 with the "no files found"
\* message and no documentation provider call is made.
C6_EmptyListingAnswered400 ==
    (Done /\ \E i \in 1..Len(events) : events[i].op = "list" /\ events[i].arg = <<>>)
    => /\ response.status = 400
       /\ response.detail = <<"No Python files found in the ZIP">>
       /\ ProviderCalls = <<>>
       /\ ~Happened({"read", "flow"})

C6_Witness ==
    /\ Done
    /\ \E i \in 1..Len(events) : events[i].op = "list" /\ events[i].arg = <<>>
    /\ Happened({"extract"})
    /\ response.status = 400

\* C7: every failure of the remote fetch and every failure raised by the
\* selected provider call, whatever its class, is answered 500 with the
\* underlying message.
C7_DownstreamFailuresAnswered500 ==
    (/\ Done
     /\ \/ (raisedAt = "fetch" /\ Happened({"get_failed"}))
        \/ outcomes.doc \notin {"none", "ok"})
    => (response.status = 500 /\ Carries(response.detail, exc.msg))

\* C8: for a GitHub URL not ending in .zip the main branch archive is
\* requested first and the master archive only after main failed, at most
\* two calls are made, the bytes of the first success are returned and two
\* failures raise one RuntimeError naming both branches; a URL ending in
\* .zip is requested exactly once, as given.
C8_BranchOrder ==
    LET url   == req.github_url
        codel == replace(url, "https://github.com/", "https://codeload.github.com/")
        main   == codel \o <<"/zip/refs/heads/", "main">>
        master == codel \o <<"/zip/refs/heads/", "master">>
        calls  == NetworkCalls
        n      == Len(calls)
        after  == pc \in {"process", "flow", "doc"} \/ (Done /\ Happened({"mkdtemp"}))
    IN  (HasUrl(req) /\ startswith(url, GitHubPrefix)) =>
          IF endswith(url, ZipSuffix)
          THEN /\ n <= 1
               /\ \A i \in 1..n : calls[i].arg = url
               /\ after => n = 1
               /\ (after /\ calls[1].op = "get_ok" /\ pc = "process") => zip_data = Content(url)
          ELSE /\ n <= 2
               /\ n >= 1 => calls[1].arg = main
               /\ n = 2 => (calls[1].op = "get_failed" /\ calls[2].arg = master)
               /\ \A i \in 1..n : calls[i].op = "get_ok" => i = n
               /\ after => n >= 1
               /\ (pc = "process") =>
                     (calls[n].op = "get_ok" /\ zip_data = Content(calls[n].arg))
               /\ (n = 2 /\ calls[2].op = "get_failed") =>
                     /\ Done
                     /\ exc.cls = "RuntimeError"
                     /\ {"main", "master"} \subseteq Range(exc.msg)
                     /\ raisedAt = "fetch"

C8_Witness ==
    /\ Done
    /\ Len(NetworkCalls) = 2
    /\ NetworkCalls[2].op = "get_failed"
    /\ exc.cls = "RuntimeError"

\* C9: the Summarize-flow step never ends the request and changes nothing
\* the status or the documentation are computed from; after it the status is
\* 200 exactly when the provider call succeeded, and a failed flow with a
\* successful provider call gives 200 with the failure text in flowchart and
\* the documentation populated.
C9_FlowStepNeutral ==
    [][pc = "flow" =>
          /\ pc' = "doc"
          /\ response' = response /\ exc' = exc /\ workspace' = workspace
          /\ req' = req /\ llm_provider' = llm_provider /\ code_content' = code_content]_vars

C9_FlowInv ==
    (Done /\ outcomes.flow # "none") =>
        /\ response.status = 200 <=> outcomes.doc = "ok"
        /\ (outcomes.doc = "ok") =>
              /\ response.documentation = <<"documentation of">> \o code_content
              /\ outcomes.flow # "ok" =>
                    /\ response.flowchart[1] = "Failed to generate data flow diagram: "
                    /\ Len(response.flowchart) > 1

C9_FlowFailureNeverChangesStatus == [](C9_FlowInv) /\ C9_FlowStepNeutral

C9_Witness ==
    /\ Done
    /\ outcomes.flow = "RuntimeError"
    /\ outcomes.doc = "ok"
    /\ response.status = 200

\* C10: the workspace is created before the archive is written or extracted
\* and no finished request leaves it behind, whatever the exit path.
C10_WorkspaceScoped ==
    /\ \A i \in 1..Len(events) :
          events[i].op \in {"write", "extract"} =>
              \E j \in 1..(i - 1) : events[j].op = "mkdtemp"
    /\ Happened({"write", "extract"}) => workspace # "none"
    /\ workspace = "none" <=> ~Happened({"mkdtemp"})
    /\ Done => workspace \in {"none", "removed"}

C10_Witness ==
    /\ Done
    /\ workspace = "removed"
    /\ Happened({"write"})
    /\ outcomes.doc = "RuntimeError"

====
